---- MODULE Spec2Model ----
(***************************************************************************)
(* State-machine model of the UDP socket core (kernel/udp.c) of the sos    *)
(* kernel: the endpoint hash table, bind / connect / send / recv, the      *)
(* one-shot waiter udp_wait and the receive ISR udp_recv; and of the       *)
(* virtio-MMIO block driver (kernel/virtio.c): the probe of the slots, the *)
(* handshake, the virtqueue layout and the submission of block reads.      *)
(*                                                                         *)
(* The kernel is single-CPU and cooperative: a system call runs to its     *)
(* next suspension point without another process running; only the ISR     *)
(* (udp_recv) can cut in, and only while interrupts are enabled.           *)
(***************************************************************************)
EXTENDS Integers, Sequences, FiniteSets, TLC

(* ------------------------------ bounds --------------------------------- *)
\* sockets the processes of the general specification use
MaxSocks == 2
\* processes
MaxProcs == 2
\* packets the network ISR hands to udp_recv in one run
MaxPkts == 2

(* ------------------------- program constants --------------------------- *)
UDP_HLIST_SIZE == 128
EPH_BEGIN == 20000
EPH_END == 65535
EPH_TRIES == 100
\* sizeof(struct udphdr), ip_reserve(), MAX_ETH_PKT_SIZE, nif.ip (net.h)
UDPHDR_SIZE == 8
IP_RESERVE == 34
MAX_ETH_PKT_SIZE == 1514
NIF_IP == 10
\* sizeof(struct sockaddr_in)
SOCKADDR_IN_SIZE == 16

NULL == 0

Socks == 1..MaxSocks
Procs == 1..MaxProcs

(* --------------------------- byte order -------------------------------- *)
\* 16-bit byte swap of a little-endian build
htons(x) == (x % 256) * 256 + (x \div 256)
ntohs(x) == (x % 256) * 256 + (x \div 256)

(* --------------------------- hlist / list ------------------------------ *)
\* hlist_insert links the item right after the head
hlist_insert(bucket, e) == <<e>> \o bucket

RECURSIVE SeqFilterOut(_, _)
SeqFilterOut(bucket, p) ==
    IF bucket = <<>> THEN <<>>
    ELSE IF Head(bucket).sock = NULL /\ Head(bucket).proc = p
         THEN Tail(bucket)
         ELSE <<Head(bucket)>> \o SeqFilterOut(Tail(bucket), p)

\* hlist_remove of the waiter that lives on process p's stack
hlist_remove(bucket, p) == SeqFilterOut(bucket, p)

list_insert_end(q, pkt) == Append(q, pkt)

\* list_remove(&pkt->list): the packet is unlinked from the list it is on
list_remove(q, pkt) == SelectSeq(q, LAMBDA x : x.id # pkt.id)

(* ----------------------------- state ----------------------------------- *)
VARIABLES
    udp_hlist,   \* non-empty bucket -> its udp_wait_entry list, head first
    socks,       \* socket -> [bound, connected, src, dst, recvq, recvwait]
    eph_i,       \* static uint16_t i of udp_bind_to_ephemeral
    pc,          \* process -> where it is
    pr_ready,    \* process -> flags.pr_ready
    args,        \* process -> arguments of the call it is suspended in
    current,     \* process inside a kernel section, or NULL
    irq,         \* interrupts enabled
    npkts,       \* packets handed to udp_recv so far (next packet id - 1)
    freed,       \* ids of packets given to packet_free
    arrived,     \* socket -> packets udp_recv appended to its queue, in order
    delivered,   \* socket -> what successful udp_sys_recv calls returned
    ret          \* outcome of the last call or ISR run

\* the virtio driver
VARIABLES
    slots,       \* slot -> what the device of the MMIO region is
    regs,        \* slot -> the registers of the region that the model tracks
    vlog,        \* slot -> the driver's accesses for the slot, in program order
    gic,         \* interrupt ids enabled at the interrupt controller
    blkdev,      \* struct virtio_blk blkdev
    blkreq_slab, \* blkreq_slab is not NULL
    virtqs,      \* the virtqueues created (a virtqueue pointer is its index)
    vpc,         \* where the thread that runs the driver is
    vi,          \* the loop counter i of virtio_init
    nreads,      \* calls of virtio_blk_read that reached the publish step
    vret         \* outcome of the last driver call

uvars == <<udp_hlist, socks, eph_i, pc, pr_ready, args, current, irq, npkts,
           freed, arrived, delivered, ret>>

vvars == <<slots, regs, vlog, gic, blkdev, blkreq_slab, virtqs, vpc, vi,
           nreads, vret>>

vars == <<udp_hlist, socks, eph_i, pc, pr_ready, args, current, irq, npkts,
          freed, arrived, delivered, ret, slots, regs, vlog, gic, blkdev,
          blkreq_slab, virtqs, vpc, vi, nreads, vret>>

\* struct hlist_head udp_hlist[UDP_HLIST_SIZE]: the list of bucket h (only the
\* non-empty buckets are stored)
Bucket(hl, h) == IF h \in DOMAIN hl THEN hl[h] ELSE <<>>

SetBucket(hl, h, list) ==
    [b \in (IF list = <<>> THEN DOMAIN hl \ {h} ELSE DOMAIN hl \cup {h}) |->
        IF b = h THEN list ELSE hl[b]]

NoAddr == [addr |-> 0, port |-> 0]
NoArgs == [sock |-> NULL, len |-> 0, fault |-> FALSE, port |-> 0]

InitSock == [bound |-> FALSE, connected |-> FALSE, src |-> NoAddr, dst |-> NoAddr,
             recvq |-> <<>>, recvwait |-> {}]

NoRet == [op |-> "none", proc |-> NULL, sock |-> NULL, err |-> "", val |-> 0,
          pkt |-> NULL, data |-> <<>>, alloc |-> FALSE, sent |-> FALSE,
          pfreed |-> FALSE, dgram |-> NoAddr, sval |-> [hi |-> 0, lo |-> 0]]

(* ------------------------ virtio: constants ---------------------------- *)
\* bounds: slots of the bank that hold a device other than "empty" (the
\* first MaxDevs - 1 slots and the last one), calls of virtio_blk_read, and
\* virtqueues another caller of virtq_create makes
MaxDevs == 2
MaxReads == 130
MaxQueues == 2

VIRTIO_MAGIC == 1953655158
VIRTIO_VERSION == 2
VIRTIO_DEV_BLK == 2
\* for (int i = 0; i < 32; i++), region stride 0x200, intid 32 + 0x10 + i
NSLOTS == 32
SLOT_STRIDE == 512
INTID_BASE == 48
\* virtq_create(128)
QLEN == 128

\* virtio.h: status bits, descriptor flags, block request constants
VIRTIO_STATUS_ACKNOWLEDGE == 1
VIRTIO_STATUS_DRIVER == 2
VIRTIO_STATUS_DRIVER_OK == 4
VIRTIO_STATUS_FEATURES_OK == 8
VIRTQ_DESC_F_NEXT == 1
VIRTQ_DESC_F_WRITE == 2
VIRTIO_BLK_T_IN == 0
VIRTIO_BLK_REQ_HEADER_SIZE == 16
VIRTIO_BLK_REQ_FOOTER_SIZE == 1
VIRTIO_BLK_SECTOR_SIZE == 512

\* kernel.h / virtio.h: page size and the sizes of the ring structures
PAGE_SIZE == 4096
\* struct virtqueue: phys, len and the five pointers virtq_create sets
VIRTQUEUE_SIZE == 28
VIRTQ_DESC_SIZE == 16
VIRTQ_AVAIL_SIZE == 4
VIRTQ_USED_SIZE == 4
VIRTQ_USED_ELEM_SIZE == 8
UINT16_SIZE == 2

\* run-time addresses: the mapping of the register bank, the first page
\* alloc_pages hands out, the slab's first request, the sector buffer
VIRTIO_VIRT == 1048576
PHYS_BASE == 2097152
HDR_PHYS == 3145728
REQ_STRIDE == 32
BUFFER_PHYS == 4194304

Slots == 0..(NSLOTS - 1)

\* the address of the registers of slot i, and the slot of such an address
RegsAddr(i) == VIRTIO_VIRT + SLOT_STRIDE * i
SlotOf(a) == (a - VIRTIO_VIRT) \div SLOT_STRIDE

\* bits of blk_caps and indp_caps (as bit numbers) and their support flag
blk_caps == {[bit |-> b, support |-> FALSE] : b \in {1, 2, 4, 5, 6, 9, 10, 11}}
indp_caps == {[bit |-> b, support |-> FALSE] : b \in {28, 29}}

\* what a slot can hold: nothing (DeviceID 0), a region with a wrong magic
\* value or version, a block device that accepts or refuses the requested
\* features, a device of another kind (DeviceID 1, network)
SlotKind(k) ==
    [magic |-> IF k = "badmagic" THEN 0 ELSE VIRTIO_MAGIC,
     version |-> IF k = "badversion" THEN 1 ELSE VIRTIO_VERSION,
     devid |-> IF k \in {"blk", "blk_refuse"} THEN VIRTIO_DEV_BLK
               ELSE IF k = "net" THEN 1 ELSE 0,
     features |-> IF k = "blk" THEN {6, 9, 28}
                  ELSE IF k = "blk_refuse" THEN {5, 30} ELSE {},
     accept |-> k # "blk_refuse"]

SlotKinds == {"empty", "badmagic", "badversion", "blk", "blk_refuse", "net"}

\* the slots that may hold something
HotSlots == (0..(MaxDevs - 2)) \cup {NSLOTS - 1}

SlotConfigs ==
    {[i \in Slots |-> SlotKind(IF i \in HotSlots THEN h[i] ELSE "empty")] :
        h \in [HotSlots -> SlotKinds]}

ResetRegs == [Status |-> 0, QueueSel |-> 0, QueueReady |-> 0]

NoBlkdev == [regs |-> NULL, virtq |-> NULL, intid |-> 0]

NoVret == [op |-> "none", ok |-> FALSE, len |-> [hi |-> 0, lo |-> 0]]

\* the driver's state at the entry of virtio_init, over the bank cfg;
\* at == "off" is a kernel whose virtio_init is not running
VirtioAt(cfg, at) ==
    /\ slots = cfg
    /\ regs = [i \in Slots |-> ResetRegs]
    /\ vlog = [i \in Slots |-> <<>>]
    /\ gic = {}
    /\ blkdev = NoBlkdev
    /\ blkreq_slab = FALSE
    /\ virtqs = <<>>
    /\ vpc = at
    /\ vi = 0
    /\ nreads = 0
    /\ vret = NoVret

EmptyBank == [i \in Slots |-> SlotKind("empty")]

\* udp_init, and a socket layer that has created the sockets in S
InitWith(S) ==
    /\ udp_hlist = <<>>
    /\ socks = [s \in S |-> InitSock]
    /\ eph_i = EPH_BEGIN
    /\ pc = [p \in Procs |-> "user"]
    /\ pr_ready = [p \in Procs |-> TRUE]
    /\ args = [p \in Procs |-> NoArgs]
    /\ current = NULL
    /\ irq = TRUE
    /\ npkts = 0
    /\ freed = {}
    /\ arrived = [s \in S |-> <<>>]
    /\ delivered = [s \in S |-> <<>>]
    /\ ret = NoRet

Init == InitWith(Socks) /\ VirtioAt(EmptyBank, "off")

(* ------------------------- endpoint table ------------------------------ *)
udp_hash(port) == port % UDP_HLIST_SIZE

\* list_for_each_entry from position k on: the first entry whose port matches
RECURSIVE FirstWithPort(_, _, _)
FirstWithPort(bucket, port, k) ==
    IF k > Len(bucket) THEN <<>>
    ELSE IF bucket[k].port = port THEN <<bucket[k]>>
         ELSE FirstWithPort(bucket, port, k + 1)

\* the entry found, as a sequence of length 1, or <<>> for NULL
lookup_entry(hl, port) == FirstWithPort(Bucket(hl, udp_hash(port)), port, 1)

\* the kernel state a bind changes
Kst == [hl |-> udp_hlist, socks |-> socks, i |-> eph_i]

\* addr.port is sin_port, in network byte order
udp_do_bind(st, sock, addr) ==
    LET hash == udp_hash(ntohs(addr.port))
        entry == [sock |-> sock, proc |-> NULL, rcv |-> <<>>,
                  port |-> ntohs(addr.port)]
    IN [st EXCEPT !.hl = SetBucket(@, hash, hlist_insert(Bucket(@, hash), entry)),
                  !.socks[sock].src = addr,
                  !.socks[sock].bound = TRUE]

Ret(op, p, s, err, val) ==
    [NoRet EXCEPT !.op = op, !.proc = p, !.sock = s, !.err = err, !.val = val]

\* the result of udp_bind: the error and the state after it
udp_bind_res(st, sock, addr, address_len, fault) ==
    IF st.socks[sock].bound THEN [err |-> "EINVAL", st |-> st]
    ELSE IF address_len # SOCKADDR_IN_SIZE THEN [err |-> "EINVAL", st |-> st]
    ELSE IF fault THEN [err |-> "EFAULT", st |-> st]
    ELSE IF addr.addr # 0 /\ addr.addr # NIF_IP THEN [err |-> "EADDRNOTAVAIL", st |-> st]
    ELSE IF lookup_entry(st.hl, addr.port) # <<>> THEN [err |-> "EADDRINUSE", st |-> st]
    ELSE [err |-> "", st |-> udp_do_bind(st, sock, addr)]

\* ports, in host byte order, that callers bind, wait on and that packets carry
BindPorts == {5000, 5128, htons(5000), EPH_BEGIN}
BindAddrs == {0, NIF_IP}

\* the calls of udp_bind: every port on both local addresses, and one call for
\* each way the arguments can be wrong
BindCalls ==
    {[port |-> q, addr |-> a, len |-> SOCKADDR_IN_SIZE, fault |-> FALSE] :
        q \in BindPorts, a \in BindAddrs}
    \cup {[port |-> 5000, addr |-> NIF_IP + 1, len |-> SOCKADDR_IN_SIZE, fault |-> FALSE],
          [port |-> 5000, addr |-> 0, len |-> SOCKADDR_IN_SIZE - 1, fault |-> FALSE],
          [port |-> 5000, addr |-> 0, len |-> SOCKADDR_IN_SIZE, fault |-> TRUE]}

CanCall(p) == current = NULL /\ pc[p] = "user"

\* some process is running in user mode and can make a system call
UserMode == \E p \in Procs : CanCall(p)

udp_bind(sock, addr, address_len, fault) ==
    /\ UNCHANGED vvars
    /\ UserMode
    /\ LET r == udp_bind_res(Kst, sock, addr, address_len, fault)
       IN /\ udp_hlist' = r.st.hl
          /\ socks' = r.st.socks
          /\ ret' = Ret("bind", NULL, sock, r.err, 0)
    /\ UNCHANGED <<eph_i, pc, pr_ready, args, current, irq, npkts, freed,
                   arrived, delivered>>

(* ------------------------------ connect -------------------------------- *)
DstAddrs == {[addr |-> 20, port |-> htons(53)], [addr |-> 21, port |-> htons(67)]}

ConnectCalls ==
    {[dst |-> a, len |-> SOCKADDR_IN_SIZE, fault |-> FALSE] : a \in DstAddrs}
    \cup {[dst |-> [addr |-> 20, port |-> htons(53)], len |-> SOCKADDR_IN_SIZE - 1,
           fault |-> FALSE],
          [dst |-> [addr |-> 20, port |-> htons(53)], len |-> SOCKADDR_IN_SIZE,
           fault |-> TRUE]}

\* (mutant) the address is stored in the socket before the length check
udp_connect_res_early(st, sock, addr, address_len, fault) ==
    LET st1 == [st EXCEPT !.socks[sock].dst = addr]
    IN IF address_len # SOCKADDR_IN_SIZE THEN [err |-> "EINVAL", st |-> st1]
       ELSE IF fault THEN [err |-> "EFAULT", st |-> st1]
       ELSE [err |-> "", st |-> [st1 EXCEPT !.socks[sock].connected = TRUE]]

udp_connect_res(st, sock, addr, address_len, fault) ==
    IF address_len # SOCKADDR_IN_SIZE THEN [err |-> "EINVAL", st |-> st]
    ELSE IF fault THEN [err |-> "EFAULT", st |-> st]
    ELSE [err |-> "",
          st |-> [st EXCEPT !.socks[sock].dst = addr,
                            !.socks[sock].connected = TRUE]]

udp_connect(sock, addr, address_len, fault) ==
    /\ UNCHANGED vvars
    /\ UserMode
    /\ LET r == udp_connect_res(Kst, sock, addr, address_len, fault)
       IN /\ socks' = r.st.socks
          /\ ret' = Ret("connect", NULL, sock, r.err, 0)
    /\ UNCHANGED <<udp_hlist, eph_i, pc, pr_ready, args, current, irq, npkts,
                   freed, arrived, delivered>>

(* ------------------------- ephemeral ports ----------------------------- *)
\* the cursor after value i: it wraps from ephemeral_end to ephemeral_begin
eph_next(i) == IF i = EPH_END THEN EPH_BEGIN ELSE i + 1

\* while (tries--) { ... } with cursor i: [found, prev, i], the candidate prev
\* that was free (if one was found) and the cursor the loop leaves behind
RECURSIVE eph_scan(_, _, _)
eph_scan(hl, i, tries) ==
    IF tries = 0 THEN [found |-> FALSE, prev |-> 0, i |-> i]
    ELSE IF lookup_entry(hl, htons(i)) = <<>>
         THEN [found |-> TRUE, prev |-> i, i |-> eph_next(i)]
         ELSE eph_scan(hl, eph_next(i), tries - 1)

udp_bind_to_ephemeral(st, sock) ==
    LET r == eph_scan(st.hl, st.i, EPH_TRIES)
    IN IF r.found
       THEN [ok |-> TRUE,
             st |-> udp_do_bind([st EXCEPT !.i = r.i], sock,
                                [addr |-> 0, port |-> htons(r.prev)])]
       ELSE [ok |-> FALSE, st |-> [st EXCEPT !.i = r.i]]

(* ------------------------------- send ---------------------------------- *)
\* size_t is 32 bits wide on this kernel (pointers are cast to uint32_t);
\* a size_t is kept as two 16-bit halves
U32(hi, lo) == [hi |-> hi, lo |-> lo]

\* (uint32_t)(n + x) for a small non-negative int n
Add32(n, x) ==
    LET s == x.lo + n
    IN U32((x.hi + (s \div 65536)) % 65536, s % 65536)

\* x > n, for 0 <= n < 65536
Gt32(x, n) == x.hi > 0 \/ x.lo > n

udp_reserve == IP_RESERVE + UDPHDR_SIZE

\* space + len > MAX_ETH_PKT_SIZE, computed in size_t
send_too_big(len) == Gt32(Add32(udp_reserve, len), MAX_ETH_PKT_SIZE)

\* the result of udp_sys_send: error, state after, and what became of the packet
udp_sys_send_res(st, sock, len, fault) ==
    LET none == [err |-> "", st |-> st, alloc |-> FALSE, sent |-> FALSE,
                 pfreed |-> FALSE, dgram |-> NoAddr]
    IN
    IF send_too_big(len) THEN [none EXCEPT !.err = "EMSGSIZE"]
    ELSE IF ~st.socks[sock].connected THEN [none EXCEPT !.err = "EDESTADDRREQ"]
    ELSE LET b == IF st.socks[sock].bound THEN [ok |-> TRUE, st |-> st]
                  ELSE udp_bind_to_ephemeral(st, sock)
         IN IF ~b.ok THEN [none EXCEPT !.err = "EADDRINUSE", !.st = b.st]
            ELSE IF fault
            THEN [none EXCEPT !.err = "EFAULT", !.st = b.st, !.alloc = TRUE,
                              !.pfreed = TRUE]
            ELSE LET sk == b.st.socks[sock]
                     src == IF sk.src.addr # 0 THEN sk.src.addr ELSE NIF_IP
                 IN [none EXCEPT !.st = b.st, !.alloc = TRUE, !.sent = TRUE,
                         !.dgram = [src_ip |-> src, dst_ip |-> sk.dst.addr,
                                    src_port |-> sk.src.port,
                                    dst_port |-> sk.dst.port, len |-> len]]

SendLens ==
    { U32(0, 1),
      U32(0, MAX_ETH_PKT_SIZE - udp_reserve - 1),
      U32(0, MAX_ETH_PKT_SIZE - udp_reserve),
      U32(0, MAX_ETH_PKT_SIZE - udp_reserve + 1),
      U32(65535, 65535 - udp_reserve),
      U32(65535, 65536 - udp_reserve) }

\* every length with a readable buffer, and one call whose buffer faults
SendCalls ==
    {[len |-> l, fault |-> FALSE] : l \in SendLens}
    \cup {[len |-> U32(0, 1), fault |-> TRUE]}

udp_sys_send(sock, len, fault) ==
    /\ UNCHANGED vvars
    /\ UserMode
    /\ LET r == udp_sys_send_res(Kst, sock, len, fault)
       IN /\ udp_hlist' = r.st.hl
          /\ socks' = r.st.socks
          /\ eph_i' = r.st.i
          /\ ret' = [Ret("send", NULL, sock, r.err, 0) EXCEPT
                        !.sval = IF r.err = "" THEN len ELSE U32(0, 0),
                        !.alloc = r.alloc, !.sent = r.sent,
                        !.pfreed = r.pfreed, !.dgram = r.dgram]
    /\ UNCHANGED <<pc, pr_ready, args, current, irq, npkts, freed, arrived,
                   delivered>>

(* ---------------------------- receive ISR ------------------------------ *)
\* index of the entry udp_recv stops at in the bucket, 0 when it falls through
RECURSIVE recv_walk(_, _, _)
recv_walk(bucket, port, k) ==
    IF k > Len(bucket) THEN 0
    ELSE IF bucket[k].sock # NULL THEN k
    ELSE IF bucket[k].port = port THEN k
    ELSE recv_walk(bucket, port, k + 1)

wait_list_awaken(ready, waitlist) ==
    [q \in DOMAIN ready |-> IF q \in waitlist THEN TRUE ELSE ready[q]]

\* a packet as IP input hands it over: transport cursor at the UDP header
Packet(id, dst_port, data) ==
    [id |-> id, dst_port |-> htons(dst_port), tl |-> IP_RESERVE, al |-> NULL,
     end |-> IP_RESERVE + UDPHDR_SIZE + Len(data), data |-> data]

\* 5000 and 5128 share a bucket; 5001 is in the next one
RxPorts == {5000, 5128}
PktPorts == {5000, 5001, 5128}
Payloads == {<<7>>, <<7, 8>>}

\* (mutant) the waiter branch lacks its return: the loop runs on to packet_free
recv_outcome_noreturn(bucket, port) ==
    LET k == recv_walk(bucket, port, 1)
    IN IF k = 0 THEN [sock |-> NULL, waiter |-> 0, free |-> TRUE]
       ELSE IF bucket[k].sock # NULL
       THEN [sock |-> bucket[k].sock, waiter |-> 0, free |-> FALSE]
       ELSE [sock |-> NULL, waiter |-> k, free |-> TRUE]

\* what the loop of udp_recv decides for a packet to `port`: the socket whose
\* queue gets it, the position of the waiter whose slot gets it, or the fall
\* through to packet_free
recv_outcome(bucket, port) ==
    LET k == recv_walk(bucket, port, 1)
    IN IF k = 0 THEN [sock |-> NULL, waiter |-> 0, free |-> TRUE]
       ELSE IF bucket[k].sock # NULL
       THEN [sock |-> bucket[k].sock, waiter |-> 0, free |-> FALSE]
       ELSE [sock |-> NULL, waiter |-> k, free |-> FALSE]

udp_recv(pkt0) ==
    LET port == ntohs(pkt0.dst_port)
        hash == udp_hash(port)
        pkt == [pkt0 EXCEPT !.al = pkt0.tl + UDPHDR_SIZE]
        bucket == Bucket(udp_hlist, hash)
        o == recv_outcome(bucket, port)
    IN
    /\ UNCHANGED vvars
    /\ irq
    /\ npkts < MaxPkts
    /\ npkts' = npkts + 1
    /\ socks' = IF o.sock = NULL THEN socks
                ELSE [socks EXCEPT ![o.sock].recvq = list_insert_end(@, pkt),
                                   ![o.sock].recvwait = {}]
    /\ arrived' = IF o.sock = NULL THEN arrived
                  ELSE [arrived EXCEPT ![o.sock] = Append(@, pkt.id)]
    /\ udp_hlist' = IF o.waiter = 0 THEN udp_hlist
                    ELSE [udp_hlist EXCEPT ![hash][o.waiter].rcv = <<pkt>>]
    /\ pr_ready' = IF o.sock # NULL
                   THEN wait_list_awaken(pr_ready, socks[o.sock].recvwait)
                   ELSE IF o.waiter # 0
                   THEN [pr_ready EXCEPT ![bucket[o.waiter].proc] = TRUE]
                   ELSE pr_ready
    /\ freed' = IF o.free THEN freed \cup {pkt.id} ELSE freed
    /\ ret' = [Ret("udp_recv", NULL, NULL, "", 0) EXCEPT !.pkt = pkt.id]
    /\ UNCHANGED <<eph_i, pc, args, current, irq, delivered>>

(* ------------------------------- recv ---------------------------------- *)
\* (mutant) the peek returns the newest packet
socket_recvq_get_last(sk) ==
    IF sk.recvq = <<>> THEN <<>> ELSE <<sk.recvq[Len(sk.recvq)]>>

\* the first packet of the queue as a sequence of length 1, <<>> for NULL
socket_recvq_get(sk) == IF sk.recvq = <<>> THEN <<>> ELSE <<Head(sk.recvq)>>

\* wait_for(&sock->recvwait): queue the process on the list and sleep
recv_block(p, sock, len, fault) ==
    /\ socks' = [socks EXCEPT ![sock].recvwait = @ \cup {p}]
    /\ pr_ready' = [pr_ready EXCEPT ![p] = FALSE]
    /\ pc' = [pc EXCEPT ![p] = "r_wait"]
    /\ args' = [args EXCEPT ![p] = [NoArgs EXCEPT !.sock = sock, !.len = len,
                                                   !.fault = fault]]
    /\ UNCHANGED <<freed, delivered, ret>>

\* (mutant) the oversized packet is unlinked and freed before EMSGSIZE
recv_tail_drops(pkt, len, fault) ==
    LET pktlen == pkt.end - pkt.al
    IN IF pktlen > len THEN [err |-> "EMSGSIZE", val |-> 0, unlink |-> TRUE]
       ELSE IF fault THEN [err |-> "EFAULT", val |-> 0, unlink |-> FALSE]
       ELSE [err |-> "", val |-> pktlen, unlink |-> TRUE]

\* udp_sys_recv from "pktlen = ..." on: the value returned and whether the
\* packet is unlinked and freed
recv_tail(pkt, len, fault) ==
    LET pktlen == pkt.end - pkt.al
    IN IF pktlen > len THEN [err |-> "EMSGSIZE", val |-> 0, unlink |-> FALSE]
       ELSE IF fault THEN [err |-> "EFAULT", val |-> 0, unlink |-> FALSE]
       ELSE [err |-> "", val |-> pktlen, unlink |-> TRUE]

\* the bytes copy_to_user writes: n bytes from pkt->al on
copy_to_user(pkt, n) ==
    SubSeq(pkt.data, pkt.al - pkt.tl - UDPHDR_SIZE + 1, pkt.al - pkt.tl - UDPHDR_SIZE + n)

recv_finish(p, sock, len, fault, pkt) ==
    LET r == recv_tail(pkt, len, fault)
    IN
    /\ pc' = [pc EXCEPT ![p] = "user"]
    /\ args' = [args EXCEPT ![p] = NoArgs]
    /\ UNCHANGED pr_ready
    /\ socks' = IF r.unlink
                THEN [socks EXCEPT ![sock].recvq = list_remove(@, pkt)]
                ELSE socks
    /\ freed' = IF r.unlink THEN freed \cup {pkt.id} ELSE freed
    /\ delivered' = IF r.err = ""
                    THEN [delivered EXCEPT ![sock] = Append(@, pkt.id)]
                    ELSE delivered
    /\ ret' = IF r.err = ""
              THEN [Ret("recv", NULL, sock, "", r.val) EXCEPT
                       !.pkt = pkt.id, !.data = copy_to_user(pkt, r.val)]
              ELSE Ret("recv", NULL, sock, r.err, 0)

\* buffers of one and two bytes, and a two-byte buffer that faults
RecvCalls ==
    {[len |-> 1, fault |-> FALSE], [len |-> 2, fault |-> FALSE],
     [len |-> 2, fault |-> TRUE]}

udp_sys_recv(p, sock, len, fault) ==
    /\ UNCHANGED vvars
    /\ CanCall(p)
    /\ IF ~socks[sock].bound
       THEN /\ ret' = Ret("recv", NULL, sock, "EINVAL", 0)
            /\ UNCHANGED <<socks, pr_ready, pc, args, freed, delivered>>
       ELSE IF socket_recvq_get(socks[sock]) = <<>>
       THEN recv_block(p, sock, len, fault)
       ELSE recv_finish(p, sock, len, fault, socket_recvq_get(socks[sock])[1])
    /\ UNCHANGED <<udp_hlist, eph_i, current, irq, npkts, arrived>>

\* the scheduler runs the process again: the loop re-peeks the queue
udp_sys_recv_wake(p) ==
    /\ UNCHANGED vvars
    /\ current = NULL
    /\ pc[p] = "r_wait"
    /\ pr_ready[p]
    /\ LET a == args[p]
       IN IF socket_recvq_get(socks[a.sock]) = <<>>
          THEN recv_block(p, a.sock, a.len, a.fault)
          ELSE recv_finish(p, a.sock, a.len, a.fault,
                           socket_recvq_get(socks[a.sock])[1])
    /\ UNCHANGED <<udp_hlist, eph_i, current, irq, npkts, arrived>>

(* ------------------------------ udp_wait ------------------------------- *)
\* the caller disables interrupts and calls udp_wait(port)
udp_wait_enter(p, port) ==
    /\ UNCHANGED vvars
    /\ CanCall(p)
    /\ irq' = FALSE
    /\ current' = p
    /\ pc' = [pc EXCEPT ![p] = "w_insert"]
    /\ args' = [args EXCEPT ![p] = [NoArgs EXCEPT !.port = port]]
    /\ UNCHANGED <<udp_hlist, socks, eph_i, pr_ready, npkts, freed, arrived,
                   delivered, ret>>

\* entry.sock = NULL ... hlist_insert(&udp_hlist[hash], &entry.list)
udp_wait_insert(p) ==
    /\ UNCHANGED vvars
    /\ current = p /\ pc[p] = "w_insert"
    /\ LET port == args[p].port
           entry == [sock |-> NULL, proc |-> p, rcv |-> <<>>, port |-> port]
       IN udp_hlist' = SetBucket(udp_hlist, udp_hash(port),
                                    hlist_insert(Bucket(udp_hlist, udp_hash(port)), entry))
    /\ pc' = [pc EXCEPT ![p] = "w_clear"]
    /\ UNCHANGED <<socks, eph_i, pr_ready, args, current, irq, npkts, freed,
                   arrived, delivered, ret>>

\* current->flags.pr_ready = 0
udp_wait_clear(p) ==
    /\ UNCHANGED vvars
    /\ current = p /\ pc[p] = "w_clear"
    /\ pr_ready' = [pr_ready EXCEPT ![p] = FALSE]
    /\ pc' = [pc EXCEPT ![p] = "w_enable"]
    /\ UNCHANGED <<udp_hlist, socks, eph_i, args, current, irq, npkts, freed,
                   arrived, delivered, ret>>

\* interrupt_enable()
udp_wait_enable(p) ==
    /\ UNCHANGED vvars
    /\ current = p /\ pc[p] = "w_enable"
    /\ irq' = TRUE
    /\ pc' = [pc EXCEPT ![p] = "w_sched"]
    /\ UNCHANGED <<udp_hlist, socks, eph_i, pr_ready, args, current, npkts,
                   freed, arrived, delivered, ret>>

\* schedule(): the process gives up the CPU
udp_wait_schedule(p) ==
    /\ UNCHANGED vvars
    /\ current = p /\ pc[p] = "w_sched"
    /\ current' = NULL
    /\ pc' = [pc EXCEPT ![p] = "w_blocked"]
    /\ UNCHANGED <<udp_hlist, socks, eph_i, pr_ready, args, irq, npkts, freed,
                   arrived, delivered, ret>>

\* schedule() returns once the ready flag is set
udp_wait_resume(p) ==
    /\ UNCHANGED vvars
    /\ current = NULL /\ pc[p] = "w_blocked"
    /\ pr_ready[p]
    /\ current' = p
    /\ pc' = [pc EXCEPT ![p] = "w_remove"]
    /\ UNCHANGED <<udp_hlist, socks, eph_i, pr_ready, args, irq, npkts, freed,
                   arrived, delivered, ret>>

\* the waiter of process p, as a sequence of length 1 (<<>>: not linked)
RECURSIVE WaiterIn(_, _)
WaiterIn(bucket, p) ==
    IF bucket = <<>> THEN <<>>
    ELSE IF Head(bucket).sock = NULL /\ Head(bucket).proc = p THEN <<Head(bucket)>>
         ELSE WaiterIn(Tail(bucket), p)

\* hlist_remove(&udp_hlist[hash], &entry.list); return entry.rcv
udp_wait_return(p) ==
    /\ UNCHANGED vvars
    /\ current = p /\ pc[p] = "w_remove"
    /\ LET hash == udp_hash(args[p].port)
           entry == WaiterIn(Bucket(udp_hlist, hash), p)[1]
       IN /\ udp_hlist' = SetBucket(udp_hlist, hash,
                                    hlist_remove(Bucket(udp_hlist, hash), p))
          /\ ret' = [Ret("udp_wait", p, NULL, "", 0) EXCEPT
                        !.pkt = IF entry.rcv = <<>> THEN NULL ELSE entry.rcv[1].id]
    /\ current' = NULL
    /\ pc' = [pc EXCEPT ![p] = "user"]
    /\ args' = [args EXCEPT ![p] = NoArgs]
    /\ UNCHANGED <<socks, eph_i, pr_ready, irq, npkts, freed, arrived, delivered>>

(* ------------------------- virtio: registers --------------------------- *)
\* bit b (a power of two) of v, and v | b
HasBit(v, b) == (v \div b) % 2 = 1
Or(v, b) == IF HasBit(v, b) THEN v ELSE v + b

\* the value the Status register holds after the driver wrote v: a device
\* that refuses the features does not take the FEATURES_OK bit
dev_status(dev, v) ==
    IF HasBit(v, VIRTIO_STATUS_FEATURES_OK) /\ ~dev.accept
    THEN v - VIRTIO_STATUS_FEATURES_OK
    ELSE v

\* the driver state the probe changes
Vst == [regs |-> regs, vlog |-> vlog, gic |-> gic, blkdev |-> blkdev,
        slab |-> blkreq_slab, virtqs |-> virtqs]

Access(reg, val, rd) == [reg |-> reg, val |-> val, rd |-> rd]

\* WRITE32(regs->reg, val) on slot i
WRITE32(st, i, reg, val) ==
    [st EXCEPT !.vlog[i] = Append(@, Access(reg, val, FALSE)),
               !.regs[i] = IF reg = "Status"
                           THEN [@ EXCEPT !.Status = dev_status(slots[i], val)]
                           ELSE IF reg \in DOMAIN @ THEN [@ EXCEPT ![reg] = val]
                           ELSE @]

\* READ32(regs->Status) on slot i: the access is recorded, the value is
\* st.regs[i].Status
READ32_Status(st, i) ==
    [st EXCEPT !.vlog[i] = Append(@, Access("Status", st.regs[i].Status, TRUE))]

\* (mutant) the status bit is written alone, without the bits read back
status_set(st, i, bit) ==
    WRITE32(READ32_Status(st, i), i, "Status", bit)

\* WRITE32(regs->Status, READ32(regs->Status) | bit)
status_or(st, i, bit) ==
    WRITE32(READ32_Status(st, i), i, "Status", Or(st.regs[i].Status, bit))

\* virtio_check_capabilities over sets of bit numbers
virtio_check_capabilities(device, request, caps) ==
    [device |-> device \ {c.bit : c \in caps},
     request |-> request \cup {c.bit : c \in {x \in caps : x.bit \in device /\ x.support}}]

(* ------------------------- virtio: virtqueue --------------------------- *)
\* uint32_t arithmetic on two 16-bit halves
Plus32(x, y) ==
    LET s == x.lo + y.lo
    IN U32((x.hi + y.hi + (s \div 65536)) % 65536, s % 65536)

\* (uint32_t)(x * c) for a small constant c
Mul32(c, x) ==
    LET q == x.lo * c
    IN U32((x.hi * c + (q \div 65536)) % 65536, q % 65536)

\* ALIGN(x, a) for a power of two a: round up to a multiple of a
ALIGN(x, a) ==
    LET y == Add32(a - 1, x)
    IN U32(y.hi, y.lo - (y.lo % a))

\* "compute offsets" of virtq_create
virtq_layout(len) ==
    LET off_desc == ALIGN(U32(0, VIRTQUEUE_SIZE), 16)
        off_avail == ALIGN(Plus32(off_desc, Mul32(VIRTQ_DESC_SIZE, len)), 2)
        off_used_event == Plus32(Add32(VIRTQ_AVAIL_SIZE, off_avail),
                                 Mul32(UINT16_SIZE, len))
        off_used == ALIGN(Add32(UINT16_SIZE, off_used_event), 4)
        off_avail_event == Plus32(Add32(VIRTQ_USED_SIZE, off_used),
                                  Mul32(VIRTQ_USED_ELEM_SIZE, len))
        memsize == Add32(UINT16_SIZE, off_avail_event)
    IN [off_desc |-> off_desc, off_avail |-> off_avail,
        off_used_event |-> off_used_event, off_used |-> off_used,
        off_avail_event |-> off_avail_event, memsize |-> memsize]

\* the result of virtq_create(len): the state after it and the queue (NULL
\* when memsize > PAGE_SIZE). desc and ring hold the cells written so far.
virtq_create(st, len) ==
    LET l == virtq_layout(len)
    IN IF Gt32(l.memsize, PAGE_SIZE) THEN [st |-> st, virtq |-> NULL]
       ELSE [st |-> [st EXCEPT !.virtqs =
                        Append(@, [phys |-> PHYS_BASE + PAGE_SIZE * Len(@),
                                   len |-> len,
                                   desc |-> l.off_desc,
                                   avail |-> l.off_avail,
                                   used_event |-> l.off_used_event,
                                   used |-> l.off_used,
                                   avail_event |-> l.off_avail_event,
                                   descs |-> <<>>,
                                   ring |-> <<>>,
                                   avail_idx |-> 0,
                                   used_idx |-> 0])],
             virtq |-> Len(st.virtqs) + 1]

\* virtq_add_to_device(regs of slot i, virtqueue q, queue_sel)
virtq_add_to_device(st, i, q, queue_sel) ==
    LET vq == st.virtqs[q]
        s1 == WRITE32(st, i, "QueueSel", queue_sel)
        s2 == WRITE32(s1, i, "QueueNum", vq.len)
        s3 == WRITE32(s2, i, "QueueDescLow", Add32(vq.phys, vq.desc))
        s4 == WRITE32(s3, i, "QueueDescHigh", 0)
        s5 == WRITE32(s4, i, "QueueAvailLow", Add32(vq.phys, vq.avail))
        s6 == WRITE32(s5, i, "QueueAvailHigh", 0)
        s7 == WRITE32(s6, i, "QueueUsedLow", Add32(vq.phys, vq.used))
        s8 == WRITE32(s7, i, "QueueUsedHigh", 0)
    IN WRITE32(s8, i, "QueueReady", 1)

(* --------------------------- virtio: probe ----------------------------- *)
\* (mutant) the check of the re-read Status always passes
features_retained_any(st, i) == TRUE

\* regs->Status & VIRTIO_STATUS_FEATURES_OK, after the barrier
features_retained(st, i) == HasBit(st.regs[i].Status, VIRTIO_STATUS_FEATURES_OK)

gic_enable_interrupt(st, i, intid) ==
    [st EXCEPT !.gic = @ \cup {intid},
               !.vlog[i] = Append(@, Access("gic_enable_interrupt", intid, FALSE))]

maybe_init_blkreq_slab(st) == [st EXCEPT !.slab = TRUE]

\* virtio_blk_init(regs of slot i, intid)
virtio_blk_init(st, i, intid) ==
    LET s1 == WRITE32(WRITE32(st, i, "DeviceFeaturesSel", 0), i,
                      "DriverFeaturesSel", 0)
        c1 == virtio_check_capabilities(slots[i].features, {}, blk_caps)
        c2 == virtio_check_capabilities(c1.device, c1.request, indp_caps)
        s2 == WRITE32(s1, i, "DriverFeatures", c2.request)
        s3 == status_or(s2, i, VIRTIO_STATUS_FEATURES_OK)
        s4 == READ32_Status(s3, i)
    IN IF ~features_retained(s4, i) THEN s4
       ELSE LET s5 == READ32_Status(s4, i)
                c == virtq_create(s5, U32(0, QLEN))
                s6 == virtq_add_to_device(c.st, i, c.virtq, 0)
                s7 == gic_enable_interrupt(s6, i, intid)
                s8 == [s7 EXCEPT !.blkdev = [regs |-> RegsAddr(i),
                                             virtq |-> c.virtq,
                                             intid |-> intid]]
                s9 == status_or(s8, i, VIRTIO_STATUS_DRIVER_OK)
            IN maybe_init_blkreq_slab(READ32_Status(s9, i))

\* virtio_dev_init(virt, intid)
virtio_dev_init(st, virt, intid) ==
    LET i == SlotOf(virt)
    IN IF slots[i].magic # VIRTIO_MAGIC THEN st
       ELSE IF slots[i].version # VIRTIO_VERSION THEN st
       ELSE IF slots[i].devid = 0 THEN st
       ELSE LET s1 == WRITE32(st, i, "Status", 0)
                s2 == status_or(s1, i, VIRTIO_STATUS_ACKNOWLEDGE)
                s3 == status_or(s2, i, VIRTIO_STATUS_DRIVER)
            IN IF slots[i].devid = VIRTIO_DEV_BLK
               THEN virtio_blk_init(s3, i, intid)
               ELSE s3

SetV(st) ==
    /\ regs' = st.regs
    /\ vlog' = st.vlog
    /\ gic' = st.gic
    /\ blkdev' = st.blkdev
    /\ blkreq_slab' = st.slab
    /\ virtqs' = st.virtqs

\* one iteration of the loop of virtio_init; after the last one the thread
\* stands at the call virtio_blk_read(&blkdev, 0, buffer)
virtio_init_probe ==
    /\ UNCHANGED uvars
    /\ vpc = "probe"
    /\ vi < NSLOTS
    /\ SetV(virtio_dev_init(Vst, RegsAddr(vi), INTID_BASE + vi))
    /\ vi' = vi + 1
    /\ vpc' = IF vi + 1 = NSLOTS THEN "r_fill" ELSE "probe"
    /\ vret' = [NoVret EXCEPT !.op = "virtio_dev_init"]
    /\ UNCHANGED <<slots, nreads>>

(* ------------------------- virtio: block read -------------------------- *)
Put(f, k, v) == [x \in DOMAIN f \cup {k} |-> IF x = k THEN v ELSE f[x]]

Desc(addr, len, flags, next) ==
    [addr |-> addr, len |-> len, flags |-> flags, next |-> next]

\* byte offset in the page of avail->ring[idx]
ring_cell(vq, idx) == vq.avail.lo + VIRTQ_AVAIL_SIZE + UINT16_SIZE * idx

\* (mutant) the ring slot is not written before the barrier
blk_read_fill_noslot(vq, hdr_phys, data_phys) ==
    [vq EXCEPT
        !.descs = Put(Put(Put(@,
            0, Desc(hdr_phys, VIRTIO_BLK_REQ_HEADER_SIZE, VIRTQ_DESC_F_NEXT, 1)),
            1, Desc(data_phys + 16, VIRTIO_BLK_SECTOR_SIZE,
                    VIRTQ_DESC_F_WRITE + VIRTQ_DESC_F_NEXT, 2)),
            2, Desc(hdr_phys + VIRTIO_BLK_REQ_HEADER_SIZE,
                    VIRTIO_BLK_REQ_FOOTER_SIZE, VIRTQ_DESC_F_WRITE, 0))]

\* the writes of virtio_blk_read up to the first barrier: descriptors 0..2
\* and avail->ring[avail->idx] = 0; a cell past the ring that is used->idx
\* is overwritten
blk_read_fill(vq, hdr_phys, data_phys) ==
    [vq EXCEPT
        !.descs = Put(Put(Put(@,
            0, Desc(hdr_phys, VIRTIO_BLK_REQ_HEADER_SIZE, VIRTQ_DESC_F_NEXT, 1)),
            1, Desc(data_phys + 16, VIRTIO_BLK_SECTOR_SIZE,
                    VIRTQ_DESC_F_WRITE + VIRTQ_DESC_F_NEXT, 2)),
            2, Desc(hdr_phys + VIRTIO_BLK_REQ_HEADER_SIZE,
                    VIRTIO_BLK_REQ_FOOTER_SIZE, VIRTQ_DESC_F_WRITE, 0)),
        !.ring = Put(@, vq.avail_idx, 0),
        !.used_idx = IF ring_cell(vq, vq.avail_idx) = vq.used.lo + UINT16_SIZE
                     THEN 0 ELSE @]

\* blk->virtq and blkreq_slab can be dereferenced
CanDeref == blkreq_slab /\ blkdev.virtq # NULL /\ blkdev.regs # NULL

\* virtio_blk_read from slab_alloc to the barrier after the ring slot write
virtio_blk_read_fill ==
    /\ UNCHANGED uvars
    /\ vpc = "r_fill"
    /\ CanDeref
    /\ virtqs' = [virtqs EXCEPT ![blkdev.virtq] =
                     blk_read_fill(@, HDR_PHYS + REQ_STRIDE * nreads, BUFFER_PHYS)]
    /\ nreads' = nreads + 1
    /\ vpc' = "r_inc"
    /\ vret' = [NoVret EXCEPT !.op = "virtio_blk_read"]
    /\ UNCHANGED <<slots, regs, vlog, gic, blkdev, blkreq_slab, vi>>

\* virtio_blk_read with blkreq_slab and blk->virtq NULL: slab_alloc and the
\* descriptor writes go through null pointers; the kernel takes a data abort
\* or writes to whatever is mapped there
virtio_blk_read_null ==
    /\ UNCHANGED uvars
    /\ vpc = "r_fill"
    /\ ~CanDeref
    /\ vpc' \in {"abort", "wild"}
    /\ vret' = [NoVret EXCEPT !.op = "virtio_blk_read"]
    /\ UNCHANGED <<slots, regs, vlog, gic, blkdev, blkreq_slab, virtqs, vi, nreads>>

\* blk->virtq->avail->idx += 1 (uint16_t), and the barrier after it
virtio_blk_read_inc ==
    /\ UNCHANGED uvars
    /\ vpc = "r_inc"
    /\ virtqs' = [virtqs EXCEPT ![blkdev.virtq].avail_idx = (@ + 1) % 65536]
    /\ vpc' = "r_notify"
    /\ UNCHANGED <<slots, regs, vlog, gic, blkdev, blkreq_slab, vi, nreads, vret>>

\* WRITE32(blk->regs->QueueNotify, 0); the call returns
virtio_blk_read_notify ==
    /\ UNCHANGED uvars
    /\ vpc = "r_notify"
    /\ SetV(WRITE32(Vst, SlotOf(blkdev.regs), "QueueNotify", 0))
    /\ vpc' = "shell"
    /\ UNCHANGED <<slots, vi, nreads, vret>>

\* virtio_blk_cmd_read(argc, argv) from the shell
virtio_blk_cmd_read(argc) ==
    /\ UNCHANGED uvars
    /\ vpc = "shell"
    /\ nreads < MaxReads
    /\ IF argc # 2
       THEN /\ vret' = [NoVret EXCEPT !.op = "usage"]
            /\ UNCHANGED vpc
       ELSE /\ vpc' = "r_fill"
            /\ UNCHANGED vret
    /\ UNCHANGED <<slots, regs, vlog, gic, blkdev, blkreq_slab, virtqs, vi, nreads>>

\* a call of virtq_create(len) by a driver
virtq_create_call(len) ==
    /\ UNCHANGED uvars
    /\ Len(virtqs) < MaxQueues
    /\ LET r == virtq_create(Vst, len)
       IN /\ SetV(r.st)
          /\ vret' = [op |-> "virtq_create", ok |-> r.virtq # NULL, len |-> len]
    /\ UNCHANGED <<slots, vpc, vi, nreads>>

(* ------------------------------- Next ---------------------------------- *)
(* Spec: the endpoint table under bind, connect and send.                  *)
Bind ==
    \E s \in Socks, c \in BindCalls :
        udp_bind(s, [addr |-> c.addr, port |-> htons(c.port)], c.len, c.fault)

Connect ==
    \E s \in Socks, c \in ConnectCalls :
        udp_connect(s, c.dst, c.len, c.fault)

Send ==
    \E s \in Socks, c \in SendCalls :
        udp_sys_send(s, c.len, c.fault)

Next == Bind \/ Connect \/ Send

Spec == Init /\ [][Next]_vars

(* SpecRx: the receive side; sockets are bound to ports of one bucket.     *)
RxBind ==
    \E s \in Socks, port \in RxPorts :
        udp_bind(s, [addr |-> 0, port |-> htons(port)], SOCKADDR_IN_SIZE, FALSE)

Isr ==
    \E port \in PktPorts, data \in Payloads :
        udp_recv(Packet(npkts + 1, port, data))

Recv ==
    \E p \in Procs, s \in Socks, c \in RecvCalls :
        udp_sys_recv(p, s, c.len, c.fault)

RecvWake == \E p \in Procs : udp_sys_recv_wake(p)

WaitEnter == \E p \in Procs, port \in RxPorts : udp_wait_enter(p, port)
WaitInsert == \E p \in Procs : udp_wait_insert(p)
WaitClear == \E p \in Procs : udp_wait_clear(p)
WaitEnable == \E p \in Procs : udp_wait_enable(p)
WaitSchedule == \E p \in Procs : udp_wait_schedule(p)
WaitResume == \E p \in Procs : udp_wait_resume(p)
WaitReturn == \E p \in Procs : udp_wait_return(p)

NextRx ==
    \/ RxBind \/ Isr \/ Recv \/ RecvWake
    \/ WaitEnter \/ WaitInsert \/ WaitClear \/ WaitEnable \/ WaitSchedule
    \/ WaitResume \/ WaitReturn

SpecRx == Init /\ [][NextRx]_vars

(* SpecExhaust: a server binds a block of EPH_TRIES consecutive ports, one  *)
(* socket after the other, while socket 1 connects and sends.               *)
(* The block is either the first EPH_TRIES ephemeral ports or the ports     *)
(* whose byte-swapped values those are.                                     *)
BulkSocks == (MaxSocks + 1)..(MaxSocks + EPH_TRIES)

InitExhaust == InitWith(Socks \cup BulkSocks) /\ VirtioAt(EmptyBank, "off")

\* the k-th port of the block (k from 0), in host byte order
BlockPort(swapped, k) == IF swapped THEN htons(EPH_BEGIN + k) ELSE EPH_BEGIN + k

NBulkBound == Cardinality({b \in BulkSocks : socks[b].bound})

BulkBind ==
    LET k == NBulkBound
    IN /\ k < EPH_TRIES
       /\ \E swapped \in (IF k = 0 THEN BOOLEAN
                          ELSE {ntohs(socks[MaxSocks + 1].src.port) # EPH_BEGIN}) :
              udp_bind(MaxSocks + 1 + k,
                       [addr |-> 0, port |-> htons(BlockPort(swapped, k))],
                       SOCKADDR_IN_SIZE, FALSE)

ExConnect ==
    udp_connect(1, [addr |-> 20, port |-> htons(53)], SOCKADDR_IN_SIZE, FALSE)

ExSend == udp_sys_send(1, U32(0, 1), FALSE)

NextExhaust == BulkBind \/ ExConnect \/ ExSend

SpecExhaust == InitExhaust /\ [][NextExhaust]_vars

(* SpecVirtio: virtio_init over a bank of slots, then reads from the shell. *)
InitVirtio == InitWith(Socks) /\ \E cfg \in SlotConfigs : VirtioAt(cfg, "probe")

Probe == virtio_init_probe
ReadFill == virtio_blk_read_fill
ReadNull == virtio_blk_read_null
ReadInc == virtio_blk_read_inc
ReadNotify == virtio_blk_read_notify
CmdRead == \E argc \in {1, 2} : virtio_blk_cmd_read(argc)

NextVirtio == Probe \/ ReadFill \/ ReadNull \/ ReadInc \/ ReadNotify \/ CmdRead

SpecVirtio == InitVirtio /\ [][NextVirtio]_vars

(* SpecVirtq: virtqueues of the lengths of CreateLens are created.         *)
\* lengths around the largest that fits in a page, and lengths whose
\* products with the element sizes do not fit in 32 bits
CreateLens ==
    {U32(0, n) : n \in {0, 1, 2, 3, 127, 128, 154, 155, 156, 157, 4096, 65535}}
    \cup {U32(4096, 0), U32(32768, 0), U32(32768, 1), U32(32768, 155),
          U32(32768, 156), U32(65535, 65535)}

VirtqCreate == \E len \in CreateLens : virtq_create_call(len)

NextVirtq == VirtqCreate

SpecVirtq == Init /\ [][NextVirtq]_vars

(* ======================= properties of the table ======================= *)
AllEntries(hl) ==
    UNION {{hl[b][j] : j \in 1..Len(hl[b])} : b \in DOMAIN hl}

TablePorts(hl) == {e.port : e \in AllEntries(hl)}

\* number of socket-bound entries for port q
NSockEntries(hl, q) ==
    LET RECURSIVE cnt(_)
        cnt(l) == IF l = <<>> THEN 0
                  ELSE (IF Head(l).sock # NULL /\ Head(l).port = q THEN 1 ELSE 0)
                       + cnt(Tail(l))
    IN cnt(Bucket(hl, udp_hash(q)))

\* C1: at every instant the endpoint table holds at most one socket-bound
\* entry for each port.
C1_AtMostOneSocketEntryPerPort ==
    \A q \in TablePorts(udp_hlist) : NSockEntries(udp_hlist, q) <= 1

\* a bind call whose arguments are valid: right length, readable, local address
ValidBind(c) ==
    c.len = SOCKADDR_IN_SIZE /\ ~c.fault /\ c.addr \in {0, NIF_IP}

BindAddr(c) == [addr |-> c.addr, port |-> htons(c.port)]

\* socket a is bound to port q (host byte order)
BoundTo(a, q) == socks[a].bound /\ ntohs(socks[a].src.port) = q

\* C2: once udp_bind has bound a socket A to port p, a valid udp_bind of
\* another, unbound socket B to p returns EADDRINUSE, leaves B unbound and
\* adds no entry to the table. (eph_i = EPH_BEGIN: no ephemeral bind has
\* happened, so A was bound by udp_bind.)
C2_SecondBindRefused ==
    [][\A b \in Socks, c \in BindCalls :
          ( /\ udp_bind(b, BindAddr(c), c.len, c.fault)
            /\ ValidBind(c)
            /\ ~socks[b].bound
            /\ eph_i = EPH_BEGIN
            /\ \E a \in Socks \ {b} : BoundTo(a, c.port) )
          => ( /\ ret'.err = "EADDRINUSE"
               /\ ~socks'[b].bound
               /\ udp_hlist' = udp_hlist )]_vars

\* C5: a successful ephemeral allocation binds the socket to a port in
\* [EPH_BEGIN, EPH_END] that was the port of no entry of the table just before.
C5_EphemeralFreshInRange ==
    [][\A s \in Socks, c \in SendCalls :
          ( /\ udp_sys_send(s, c.len, c.fault)
            /\ ~socks[s].bound
            /\ socks'[s].bound )
          => LET q == ntohs(socks'[s].src.port)
             IN /\ q >= EPH_BEGIN /\ q <= EPH_END
                /\ q \notin TablePorts(udp_hlist)]_vars

\* the k-th candidate port after cursor i (k from 0), wrapping at EPH_END
Candidate(i, k) == EPH_BEGIN + ((i - EPH_BEGIN + k) % (EPH_END - EPH_BEGIN + 1))

\* C6: when the next EPH_TRIES candidates of the cursor are all in the table,
\* a send on an unbound connected socket returns EADDRINUSE, the socket stays
\* unbound, the table is unchanged and the cursor has moved by EPH_TRIES.
C6_ExhaustionFails ==
    [][\A s \in Socks, c \in SendCalls :
          ( /\ ~send_too_big(c.len)
            /\ socks[s].connected /\ ~socks[s].bound
            /\ {Candidate(eph_i, k) : k \in 0..(EPH_TRIES - 1)}
                   \subseteq TablePorts(udp_hlist)
            /\ udp_sys_send(s, c.len, c.fault) )
          => ( /\ ret'.err = "EADDRINUSE"
               /\ ~socks'[s].bound
               /\ udp_hlist' = udp_hlist
               /\ eph_i' = Candidate(eph_i, EPH_TRIES) )]_vars

\* udp_reserve() + len > MAX_ETH_PKT_SIZE, in unbounded arithmetic
TooBig(len) == len.hi > 0 \/ udp_reserve + len.lo > MAX_ETH_PKT_SIZE

\* C8: on a connected socket with a readable buffer, udp_sys_send(len) returns
\* len when udp_reserve() + len <= MAX_ETH_PKT_SIZE and EMSGSIZE when it is
\* larger; with EMSGSIZE no packet is allocated or sent and nothing is bound.
C8_SendSizeBoundary ==
    [][\A s \in Socks, c \in SendCalls :
          ( /\ udp_sys_send(s, c.len, c.fault)
            /\ socks[s].connected
            /\ ~c.fault )
          => IF TooBig(c.len)
             THEN /\ ret'.err = "EMSGSIZE"
                  /\ ~ret'.alloc /\ ~ret'.sent
                  /\ socks' = socks /\ udp_hlist' = udp_hlist /\ eph_i' = eph_i
             ELSE /\ ret'.err = ""
                  /\ ret'.sval = c.len
                  /\ ret'.sent]_vars

(* ====================== properties of the receive side ================= *)
\* sockets whose queue holds packet id, waiters whose slot holds it
QueuedAt(sk, id) ==
    {s \in DOMAIN sk : \E j \in 1..Len(sk[s].recvq) : sk[s].recvq[j].id = id}

SlottedAt(hl, id) ==
    {e \in AllEntries(hl) : e.sock = NULL /\ e.rcv # <<>> /\ e.rcv[1].id = id}

\* C3: every packet passed to udp_recv ends in exactly one place: at the tail
\* of one socket's receive queue (whose waiting processes are made ready), in
\* the slot of one waiter (whose process is made ready), or freed.
C3_ExactlyOneOutcome ==
    [][npkts' # npkts =>
          LET id == npkts'
              inq == QueuedAt(socks', id)
              inw == SlottedAt(udp_hlist', id)
          IN /\ Cardinality(inq) + Cardinality(inw)
                  + (IF id \in freed' THEN 1 ELSE 0) = 1
             /\ \A s \in inq :
                   /\ Len(socks'[s].recvq) = Len(socks[s].recvq) + 1
                   /\ SubSeq(socks'[s].recvq, 1, Len(socks[s].recvq)) = socks[s].recvq
                   /\ \A q \in socks[s].recvwait : pr_ready'[q]
             /\ \A e \in inw : pr_ready'[e.proc]]_vars

\* udp_recv has just run, and of the packets handed to it one sits in a
\* waiter's slot and another in a socket's queue
C3_Witness ==
    /\ ret.op = "udp_recv"
    /\ \E id \in 1..npkts : SlottedAt(udp_hlist, id) # {}
    /\ \E id \in 1..npkts : QueuedAt(socks, id) # {}

\* C4: udp_recv appends a packet only to the queue of a socket bound to the
\* packet's destination port; a packet whose port is the port of no entry is
\* freed, no queue changes and no process is made ready.
C4_DeliveredOnlyToItsPort ==
    [][\A port \in PktPorts, data \in Payloads :
          udp_recv(Packet(npkts + 1, port, data)) =>
             /\ \A s \in Socks :
                   socks'[s].recvq # socks[s].recvq => BoundTo(s, port)
             /\ port \notin TablePorts(udp_hlist) =>
                   /\ (npkts + 1) \in freed'
                   /\ \A s \in Socks : socks'[s].recvq = socks[s].recvq
                   /\ pr_ready' = pr_ready]_vars

\* the step is the part of udp_sys_recv(sock, len) that runs with a packet in
\* the queue: the call itself, or its wake-up after wait_for
RecvRuns(p, sock, c) ==
    /\ socks[sock].bound
    /\ socks[sock].recvq # <<>>
    /\ \/ udp_sys_recv(p, sock, c.len, c.fault)
       \/ /\ args[p].sock = sock /\ args[p].len = c.len /\ args[p].fault = c.fault
          /\ udp_sys_recv_wake(p)

\* C9: a recv whose buffer is shorter than the payload of the head packet
\* returns EMSGSIZE and leaves the queue as it is, the packet not freed; the
\* head packet leaves the queue only by being returned, so later short recvs
\* fail the same way and the next recv with a buffer that is long enough (and
\* writable) returns that packet.
C9_OversizedPacketStays ==
    [][/\ \A p \in Procs, s \in Socks, c \in RecvCalls :
             RecvRuns(p, s, c) =>
                LET head == Head(socks[s].recvq)
                IN IF Len(head.data) > c.len
                   THEN /\ ret'.op = "recv" /\ ret'.err = "EMSGSIZE"
                        /\ socks'[s].recvq = socks[s].recvq
                        /\ head.id \notin freed'
                   ELSE ~c.fault =>
                        /\ ret'.op = "recv" /\ ret'.err = ""
                        /\ ret'.pkt = head.id
       /\ \A s \in Socks :
             socks[s].recvq # <<>> =>
                \/ /\ socks'[s].recvq # <<>>
                   /\ Head(socks'[s].recvq) = Head(socks[s].recvq)
                \/ /\ ret'.op = "recv" /\ ret'.err = "" /\ ret'.sock = s
                   /\ ret'.pkt = Head(socks[s].recvq).id]_vars

\* a recv has just failed with EMSGSIZE on a two-byte packet that is still
\* at the head of the queue
C9_Witness ==
    /\ ret.op = "recv" /\ ret.err = "EMSGSIZE"
    /\ socks[ret.sock].recvq # <<>>
    /\ Len(Head(socks[ret.sock].recvq).data) = 2
    /\ Head(socks[ret.sock].recvq).id \notin freed

QueueIds(q) == [j \in 1..Len(q) |-> q[j].id]

\* C10: the packets udp_recv appended to a socket's queue are returned by the
\* successful recv calls in arrival order, each once: what arrived is what
\* was returned followed by what is still queued. A successful recv returns
\* the whole payload of the head packet (its length as the value), unlinks
\* the packet and frees it.
C10_FifoRoundTrip ==
    [][/\ \A s \in Socks :
             arrived'[s] = delivered'[s] \o QueueIds(socks'[s].recvq)
       /\ \A p \in Procs, s \in Socks, c \in RecvCalls :
             (RecvRuns(p, s, c) /\ ret'.err = "") =>
                LET head == Head(socks[s].recvq)
                IN /\ ret'.pkt = head.id
                   /\ ret'.val = Len(head.data)
                   /\ ret'.data = head.data
                   /\ socks'[s].recvq = Tail(socks[s].recvq)
                   /\ head.id \in freed'
                   /\ delivered'[s] = Append(delivered[s], head.id)]_vars

\* two packets have been returned from one socket, after both were queued
C10_Witness ==
    \E s \in Socks :
        /\ Len(delivered[s]) = 2
        /\ ret.op = "recv" /\ ret.err = "" /\ ret.sock = s

\* the waiter of process p is linked with an empty slot, p sleeps in
\* schedule(), and no other entry of the table has the waiter's port
ArmedAlone(p, port) ==
    /\ pc[p] \in {"w_sched", "w_blocked"}
    /\ args[p].port = port
    /\ ~pr_ready[p]
    /\ \A e \in AllEntries(udp_hlist) :
          e.port = port => (e.sock = NULL /\ e.proc = p /\ e.rcv = <<>>)

\* C7: interrupts stay disabled from the entry of udp_wait until the waiter
\* is linked and the ready flag cleared, and a packet for the port that
\* arrives while the waiter is the only entry for the port is stored in its
\* slot and makes the process ready.
C7_NoLostWakeup ==
    [][/\ \A p \in Procs : pc'[p] \in {"w_insert", "w_clear", "w_enable"} => ~irq'
       /\ \A port \in PktPorts, data \in Payloads, p \in Procs :
             (ArmedAlone(p, port) /\ udp_recv(Packet(npkts + 1, port, data))) =>
                /\ pr_ready'[p]
                /\ SlottedAt(udp_hlist', npkts + 1) # {}]_vars

(* ===================== properties of the virtio driver ================= *)
\* slot i holds a block device behind a correct magic value and version
IsBlk(i) ==
    /\ slots[i].magic = VIRTIO_MAGIC
    /\ slots[i].version = VIRTIO_VERSION
    /\ slots[i].devid = VIRTIO_DEV_BLK

\* virtio_dev_init has run for slot i
Probed(i) == i < vi

\* positions in the log of slot i: writes of a register, reads of Status
LogWrites(log, reg) == {j \in 1..Len(log) : log[j].reg = reg /\ ~log[j].rd}

WritePos(i, reg) == LogWrites(vlog[i], reg)

ReadPos(i) ==
    {j \in 1..Len(vlog[i]) : vlog[i][j].reg = "Status" /\ vlog[i][j].rd}

\* the k-th smallest element of a set of positions
Kth(S, k) == CHOOSE x \in S : Cardinality({y \in S : y <= x}) = k

\* the bit each write to Status adds, from the second write on
HandshakeBits ==
    <<0, VIRTIO_STATUS_ACKNOWLEDGE, VIRTIO_STATUS_DRIVER,
      VIRTIO_STATUS_FEATURES_OK, VIRTIO_STATUS_DRIVER_OK>>

\* C11: for a probed block-device slot the writes to Status are, in order,
\* the reset (0) and then ACKNOWLEDGE, DRIVER, FEATURES_OK and (when the
\* device retains FEATURES_OK) DRIVER_OK, each the previous value with
\* one more bit; DriverFeatures is written before the FEATURES_OK write; and
\* QueueReady = 1 (with QueueSel 0) and the interrupt enable come after a
\* read of Status that shows FEATURES_OK and before the DRIVER_OK write.
C11_HandshakeOrder ==
    \A i \in Slots :
        (IsBlk(i) /\ Probed(i)) =>
            LET sw == WritePos(i, "Status")
                n == Cardinality(sw)
                val(k) == vlog[i][Kth(sw, k)].val
            IN /\ n = (IF slots[i].accept THEN 5 ELSE 4)
               /\ val(1) = 0
               /\ \A k \in 2..n :
                     /\ ~HasBit(val(k - 1), HandshakeBits[k])
                     /\ val(k) = val(k - 1) + HandshakeBits[k]
               /\ Cardinality(WritePos(i, "DriverFeatures")) = 1
               /\ \A j \in WritePos(i, "DriverFeatures") : j < Kth(sw, 4)
               /\ slots[i].accept =>
                     /\ Cardinality(WritePos(i, "QueueReady")) = 1
                     /\ Cardinality(WritePos(i, "gic_enable_interrupt")) = 1
                     /\ \A j \in WritePos(i, "QueueReady") \cup
                                 WritePos(i, "gic_enable_interrupt") :
                           /\ j < Kth(sw, 5)
                           /\ \E r \in ReadPos(i) :
                                 /\ Kth(sw, 4) < r /\ r < j
                                 /\ HasBit(vlog[i][r].val, VIRTIO_STATUS_FEATURES_OK)
                     /\ \A j \in WritePos(i, "QueueReady") :
                           /\ vlog[i][j].val = 1
                           /\ \E q \in WritePos(i, "QueueSel") :
                                 /\ q < j /\ vlog[i][q].val = 0
                                 /\ \A q2 \in WritePos(i, "QueueSel") :
                                       q2 < j => q2 <= q

\* a block device has been taken through the whole handshake: DRIVER_OK is
\* in its Status register, its queue is ready and its interrupt enabled
C11_Witness ==
    \E i \in Slots :
        /\ IsBlk(i) /\ Probed(i)
        /\ HasBit(regs[i].Status, VIRTIO_STATUS_DRIVER_OK)
        /\ regs[i].QueueReady = 1
        /\ (INTID_BASE + i) \in gic

\* slot i fails the checks of virtio_dev_init before the handshake
BadSlot(i) ==
    \/ slots[i].magic # VIRTIO_MAGIC
    \/ slots[i].version # VIRTIO_VERSION
    \/ slots[i].devid = 0

\* C12: the probe of a slot with a wrong magic value, a wrong version or
\* DeviceID 0 writes nothing to the slot (so nothing to its Status register);
\* the probe of a block device that does not retain FEATURES_OK creates and
\* attaches no queue, enables no interrupt, never writes DRIVER_OK and leaves
\* blkdev as it was; no probe touches another slot, and after every probe
\* the loop goes on to the next slot until all NSLOTS have been probed.
C12_ProbeFailureIsolated ==
    [][virtio_init_probe =>
          /\ BadSlot(vi) =>
                /\ vlog'[vi] = vlog[vi] /\ regs'[vi] = regs[vi]
                /\ gic' = gic /\ blkdev' = blkdev /\ virtqs' = virtqs
                /\ blkreq_slab' = blkreq_slab
          /\ (IsBlk(vi) /\ ~slots[vi].accept) =>
                /\ virtqs' = virtqs
                /\ LogWrites(vlog'[vi], "QueueReady") = {}
                /\ LogWrites(vlog'[vi], "QueueNum") = {}
                /\ regs'[vi].QueueReady = 0
                /\ gic' = gic
                /\ \A j \in LogWrites(vlog'[vi], "Status") :
                      ~HasBit(vlog'[vi][j].val, VIRTIO_STATUS_DRIVER_OK)
                /\ ~HasBit(regs'[vi].Status, VIRTIO_STATUS_DRIVER_OK)
                /\ blkdev' = blkdev
                /\ blkreq_slab' = blkreq_slab
          /\ \A j \in Slots \ {vi} : vlog'[j] = vlog[j] /\ regs'[j] = regs[j]
          /\ vi' = vi + 1
          /\ IF vi' < NSLOTS THEN vpc' = "probe" ELSE vpc' # "probe"]_vars

\* the first slot held a block device that refused the features, and the
\* probe went on to bring up the block device of a later slot
C12_Witness ==
    \E i, j \in Slots :
        /\ i < j /\ Probed(j)
        /\ IsBlk(i) /\ ~slots[i].accept
        /\ ~HasBit(regs[i].Status, VIRTIO_STATUS_DRIVER_OK)
        /\ IsBlk(j) /\ slots[j].accept
        /\ HasBit(regs[j].Status, VIRTIO_STATUS_DRIVER_OK)
        /\ blkdev.regs = RegsAddr(j)

\* descriptors 0, 1, 2 of vq are written and form the chain 0 -> 1 -> 2 with
\* flags NEXT, WRITE|NEXT, WRITE
ChainWritten(vq) ==
    /\ {0, 1, 2} \subseteq DOMAIN vq.descs
    /\ vq.descs[0].flags = VIRTQ_DESC_F_NEXT /\ vq.descs[0].next = 1
    /\ vq.descs[1].flags = VIRTQ_DESC_F_WRITE + VIRTQ_DESC_F_NEXT
    /\ vq.descs[1].next = 2
    /\ vq.descs[2].flags = VIRTQ_DESC_F_WRITE

\* the ring slot a device reads for the k-th submission (k from 0) on a
\* queue of QLEN entries has been written with head index 0
SlotWritten(vq, k) ==
    /\ (k % QLEN) \in DOMAIN vq.ring
    /\ vq.ring[k % QLEN] = 0

\* number of QueueNotify writes to slot i so far
Notified(i) == Cardinality(WritePos(i, "QueueNotify"))

\* C13: on an initialized block device, whenever the avail index is
\* incremented the three descriptors hold the chain 0 -> 1 -> 2 with flags
\* NEXT, WRITE|NEXT, WRITE and the ring slot of the submission holds head
\* index 0, both written in an earlier step; the increment is by exactly one
\* per read; the QueueNotify write of 0 comes in a later step than the
\* increment; and in every state every submission the avail index covers
\* has its descriptors and its ring slot written.
C13_PublishOrder ==
    [][/\ \A q \in DOMAIN virtqs :
             virtqs'[q].avail_idx # virtqs[q].avail_idx =>
                /\ q = blkdev.virtq
                /\ virtio_blk_read_inc
                /\ virtqs'[q].avail_idx = (virtqs[q].avail_idx + 1) % 65536
                /\ virtqs[q].avail_idx = nreads - 1
                /\ ChainWritten(virtqs[q])
                /\ virtqs[q].avail_idx \in DOMAIN virtqs[q].ring
                /\ virtqs[q].ring[virtqs[q].avail_idx] = 0
                /\ virtqs'[q].descs = virtqs[q].descs
                /\ virtqs'[q].ring = virtqs[q].ring
       /\ \A i \in Slots :
             vlog'[i] # vlog[i] /\ LogWrites(vlog'[i], "QueueNotify") # LogWrites(vlog[i], "QueueNotify") =>
                /\ virtio_blk_read_notify
                /\ blkdev.regs = RegsAddr(i)
                /\ vlog'[i] = Append(vlog[i], Access("QueueNotify", 0, FALSE))
                /\ virtqs' = virtqs
                /\ virtqs[blkdev.virtq].avail_idx = nreads
       /\ \A q \in DOMAIN virtqs' :
             virtqs'[q].avail_idx > 0 =>
                /\ ChainWritten(virtqs'[q])
                /\ \A k \in 0..(virtqs'[q].avail_idx - 1) :
                      SlotWritten(virtqs'[q], k)]_vars

\* two reads have been submitted: the second one has just written
\* QueueNotify, with the avail index at 2
C13_Witness ==
    /\ vpc = "shell"
    /\ nreads = 2
    /\ blkdev.virtq # NULL
    /\ virtqs[blkdev.virtq].avail_idx = 2
    /\ Notified(SlotOf(blkdev.regs)) = 2

\* a region of n elements of `size` bytes that starts at offset `from` ends
\* at or before offset `to` (all in bytes from the start of the page)
RegionFits(from, size, n, to) ==
    /\ from.hi = 0 /\ to.hi = 0 /\ n.hi = 0
    /\ from.lo + size * n.lo <= to.lo

\* C14: virtq_create(len) returns no queue and allocates nothing exactly
\* when the layout size it computes exceeds PAGE_SIZE; otherwise descriptor
\* table, avail ring, used_event, used ring and avail_event lie in that order
\* without overlap, the descriptor table 16-aligned, the avail ring
\* 2-aligned, the used ring 4-aligned, all ending within the page, and
\* avail idx and used idx are 0. A queue of 128 entries is created.
C14_LayoutFitsPage ==
    [][\A len \in CreateLens :
          virtq_create_call(len) =>
             IF Gt32(virtq_layout(len).memsize, PAGE_SIZE)
             THEN ~vret'.ok /\ virtqs' = virtqs
             ELSE /\ vret'.ok
                  /\ Len(virtqs') = Len(virtqs) + 1
                  /\ LET vq == virtqs'[Len(virtqs')]
                     IN /\ vq.len = len
                        /\ vq.phys % PAGE_SIZE = 0
                        /\ VIRTQUEUE_SIZE <= vq.desc.lo
                        /\ RegionFits(vq.desc, VIRTQ_DESC_SIZE, len, vq.avail)
                        /\ RegionFits(Add32(VIRTQ_AVAIL_SIZE, vq.avail), UINT16_SIZE,
                                      len, vq.used_event)
                        /\ RegionFits(vq.used_event, UINT16_SIZE, U32(0, 1), vq.used)
                        /\ RegionFits(Add32(VIRTQ_USED_SIZE, vq.used),
                                      VIRTQ_USED_ELEM_SIZE, len, vq.avail_event)
                        /\ RegionFits(vq.avail_event, UINT16_SIZE, U32(0, 1),
                                      U32(0, PAGE_SIZE))
                        /\ vq.desc.lo % 16 = 0
                        /\ vq.avail.lo % 2 = 0
                        /\ vq.used.lo % 4 = 0
                        /\ vq.avail_idx = 0 /\ vq.used_idx = 0
       /\ (virtq_create_call(U32(0, QLEN)) => vret'.ok)]_vars

(* ================== further properties of the UDP core ================= *)
\* C15: udp_connect with an address of the right length that can be read
\* returns 0, sets the socket's destination and connected flag and changes
\* nothing else (the rest of the socket, the other sockets, the endpoint
\* table, the ephemeral cursor); the same connect made again leaves the
\* socket as it is after the first, and a connect to another address
\* overwrites the destination. With a wrong address length it returns EINVAL
\* and changes nothing.
C15_ConnectIdempotent ==
    [][\A s \in Socks, c \in ConnectCalls :
          udp_connect(s, c.dst, c.len, c.fault) =>
             /\ (c.len = SOCKADDR_IN_SIZE /\ ~c.fault) =>
                   /\ ret'.err = ""
                   /\ socks' = [socks EXCEPT ![s].dst = c.dst, ![s].connected = TRUE]
                   /\ udp_hlist' = udp_hlist /\ eph_i' = eph_i
                   /\ LET after == [hl |-> udp_hlist', socks |-> socks', i |-> eph_i']
                      IN /\ udp_connect_res(after, s, c.dst, c.len, c.fault).err = ""
                         /\ udp_connect_res(after, s, c.dst, c.len, c.fault).st = after
                         /\ \A d \in DstAddrs :
                               udp_connect_res(after, s, d, SOCKADDR_IN_SIZE, FALSE).st =
                                  [after EXCEPT !.socks[s].dst = d]
             /\ c.len # SOCKADDR_IN_SIZE =>
                   /\ ret'.err = "EINVAL"
                   /\ socks' = socks /\ udp_hlist' = udp_hlist /\ eph_i' = eph_i]_vars

\* a connect has succeeded on a socket that is bound and whose destination
\* is the second address
C15_Witness ==
    /\ ret.op = "connect" /\ ret.err = ""
    /\ socks[ret.sock].bound /\ socks[ret.sock].connected
    /\ socks[ret.sock].dst = [addr |-> 21, port |-> htons(67)]

\* C16: the link and the unlink of the one-shot waiter in udp_wait are made
\* while interrupts are disabled. (The insert of udp_do_bind is made inside
\* a system call, where udp.c neither disables nor enables interrupts; it is
\* an atomic step here and nothing is required of it.)
C16_TableMutationsIrqOff ==
    [][\A p \in Procs :
          /\ udp_wait_insert(p) => (~irq /\ ~irq')
          /\ udp_wait_return(p) => (~irq /\ ~irq')]_vars

\* C17: udp_recv stores a packet only in a waiter slot that is empty, so a
\* packet once handed to a one-shot waiter stays in its slot until udp_wait
\* unlinks the waiter, and udp_wait returns that packet.
C17_SlotWrittenOnce ==
    [][/\ \A port \in PktPorts, data \in Payloads :
             udp_recv(Packet(npkts + 1, port, data)) =>
                \A id \in 1..npkts :
                   SlottedAt(udp_hlist, id) # {} => SlottedAt(udp_hlist', id) # {}
       /\ \A p \in Procs :
             udp_wait_return(p) =>
                \A id \in 1..npkts :
                   (\E e \in SlottedAt(udp_hlist, id) : e.proc = p) => ret'.pkt = id]_vars

\* C18: a udp_sys_send that returns an error leaves the socket's bound flag
\* and source address and the endpoint table as they were, sends no
\* datagram, and has freed the packet if it allocated one.
C18_SendErrorAtomic ==
    [][\A s \in Socks, c \in SendCalls :
          (udp_sys_send(s, c.len, c.fault) /\ ret'.err # "") =>
             /\ socks'[s].bound = socks[s].bound
             /\ socks'[s].src = socks[s].src
             /\ udp_hlist' = udp_hlist
             /\ ~ret'.sent
             /\ ret'.alloc => ret'.pfreed]_vars

\* C19: every avail ring slot that virtio_blk_read has written on a queue
\* is an index in [0, len) of that queue.
C19_RingSlotInBounds ==
    \A q \in DOMAIN virtqs :
        \A k \in DOMAIN virtqs[q].ring : k >= 0 /\ k < virtqs[q].len.lo

\* the block device whose registers and queue blkdev holds has completed
\* its initialization: the request slab exists and DRIVER_OK was written
BlkReady ==
    /\ blkdev.regs # NULL
    /\ blkdev.virtq # NULL
    /\ blkdev.virtq \in DOMAIN virtqs
    /\ blkreq_slab
    /\ HasBit(regs[SlotOf(blkdev.regs)].Status, VIRTIO_STATUS_DRIVER_OK)

\* C20: virtio_blk_read is executed only when a block device has completed
\* its initialization.
C20_ReadOnlyWhenReady ==
    [][(virtio_blk_read_fill \/ virtio_blk_read_null) => BlkReady]_vars

====
